---- MODULE Spec2Model ----
(***************************************************************************)
(* The impact localizer of src/shock.cpp: the edge interrupt handler       *)
(* latch_time_min, and loop() cut into the steps between which an edge     *)
(* interrupt can preempt it.  Time is the 64-bit microsecond timer behind  *)
(* micros() and millis(); it advances with the events that take time.      *)
(* TLC's integers hold 31 bits, so every time of the model is counted in   *)
(* ticks of 4 microseconds and every event falls on a tick: a timestamp t  *)
(* of the model is the 32-bit value 4*t, and the 32-bit microsecond        *)
(* counter wraps after Wrap = 2^30 ticks.                                  *)
(***************************************************************************)
EXTENDS Integers, Sequences, FiniteSets, TLC

VARIABLES
    clock,             \* the 64-bit timer micros() and millis() read, in ticks
    g_firstTime,       \* volatile unsigned long g_firstTime[SENSOR_COUNT]
    g_hitMask,         \* volatile uint32_t g_hitMask
    g_armed,           \* volatile bool g_armed
    g_capturing,       \* volatile bool g_capturing
    g_t0,              \* volatile unsigned long g_t0
    g_startPending,    \* volatile bool g_startPending
    g_firstIndex,      \* volatile int g_firstIndex
    g_edgeCount,       \* volatile uint16_t g_edgeCount[SENSOR_COUNT]
    g_lastEdgeUs,      \* volatile unsigned long g_lastEdgeUs[SENSOR_COUNT]
    g_lastBroadcastMs, \* unsigned long g_lastBroadcastMs
    g_lastHit,         \* HitResult g_lastHit (valid, mode, haveTimes)
    pc,                \* where loop() stands
    nowUs,             \* loop()'s const unsigned long nowUs
    nowMs,             \* loop()'s const unsigned long nowMs
    snap,              \* loop()'s snapshot: tcopy, mask, t0copy, lastEdgeCopy, cntCopy
    start,             \* loop()'s unsigned long start of the dead-time wait
    isr,               \* stack of the edge handlers in execution (innermost last)
    sent,              \* the per-capture messages broadcast in the current cycle
    solves,            \* the calls of tdoaSolve in the current cycle
    edges,             \* the edges the model has delivered so far
    trigClock,         \* timer value at the triggering edge of the current cycle
    latchClock,        \* timer value at each channel's latch in the current cycle
    closeClock,        \* timer value at the snapshot of the current cycle
    seen,              \* the edges of the current cycle, as they arrived
    solveRes,          \* what the call of tdoaSolve did in the current cycle
    V_SOUND,           \* float V_SOUND, in m/s
    g_prefs,           \* the value stored under "vs", if any
    acks,              \* the set_vs acknowledgments sent
    msgs,              \* the WebSocket events the model has delivered so far
    rx,                \* the frame the WebSocket handler ran on last
    page,              \* the page's script: its variables and its two buttons
    tdoa               \* a call of tdoaSolve: its arguments, locals and results

vars == << clock, g_firstTime, g_hitMask, g_armed, g_capturing, g_t0,
           g_startPending, g_firstIndex, g_edgeCount, g_lastEdgeUs,
           g_lastBroadcastMs, g_lastHit, pc, nowUs, nowMs, snap, start, isr,
           sent, solves, edges, trigClock, latchClock, closeClock, seen,
           solveRes, V_SOUND, g_prefs, acks, msgs, rx, page, tdoa >>

(***************************************************************************)
(* Program constants.                                                      *)
(***************************************************************************)
SENSOR_COUNT == 4
CAPTURE_WINDOW_US == 8000
DEADTIME_MS == 120
BROADCAST_INTERVAL_MS == 25
\* unsigned long: 2^32 microseconds, as ticks
Wrap == 1073741824
\* uint16_t
U16 == 65536
\* CAPTURE_WINDOW_US as ticks
WindowTicks == CAPTURE_WINDOW_US \div 4
\* Board bounds, in millimetres
BOARD_SIZE_M == 400
BOARD_MIN_X == 0
BOARD_MAX_X == BOARD_SIZE_M
BOARD_MIN_Y == 0
BOARD_MAX_Y == BOARD_SIZE_M
\* static float V_SOUND = 3000.0f
V_SOUND_DEFAULT == 3000

(***************************************************************************)
(* Bounds of the model.                                                    *)
(***************************************************************************)
MaxEdges == 3
\* The WebSocket events the model delivers.
MaxMsgs == 4
\* The samples the model lets a calibration session accumulate.
MaxSamples == 5
\* The ticks between the first and the last arrival of a modelled impact.
MaxLag == 30
\* The grid of impact points: its step, in hundredths of a millimetre, and
\* the number of steps to each side of the centre.
GridStep == 730
GridSpan == 6
\* The wave speed of the calls made from the grid, in m/s.
GridSpeed == 25
\* The idle time the model follows before the timer is no longer advanced
\* while nothing happens.
Horizon == 2000

Chan == 0 .. (SENSOR_COUNT - 1)
None == 0 - 1

\* Sensor positions, in millimetres
SX == (0 :> 200 @@ 1 :> 200 @@ 2 :> 300 @@ 3 :> 100)
SY == (0 :> 100 @@ 1 :> 300 @@ 2 :> 200 @@ 3 :> 200)

\* The timer value at which the model starts watching the idle system: three
\* passes of loop() before micros() wraps around.
Epoch == Wrap - 3000
\* The time an event of the model takes, in ticks: a pass of loop() up to its
\* clock samples, and the time from the previous event to an edge.
PassDeltas == {1000}
EdgeDeltas == {1000}
\* delay(1): an iteration of the dead-time wait, in ticks
DelayTicks == 1000 \div 4

\* micros(), as ticks
micros(c) == c % Wrap
\* millis(): the timer's microseconds divided by 1000 (its wrap-around, after
\* 49 days, is out of the model's reach)
millis(c) == c \div 250
\* unsigned 32-bit subtraction of two micros() values, as ticks
Sub32(a, b) == (a - b + Wrap) % Wrap
\* unsigned 32-bit subtraction of two millis() values; b is never above a
\* here, where it would give a value near 2^32
SubMs(a, b) == IF a >= b THEN a - b ELSE 2147483647

Pow2(i) == 2 ^ i
HasBit(m, i) == (m \div Pow2(i)) % 2 = 1
OrBit(m, i) == IF HasBit(m, i) THEN m ELSE m + Pow2(i)

Zeros == [i \in Chan |-> 0]
NoClock == [i \in Chan |-> None]
NoSnap == [t |-> Zeros, mask |-> 0, t0 |-> 0, last |-> Zeros, cnt |-> Zeros]
NoHit == [valid |-> FALSE, mode |-> "none", haveTimes |-> 0]
\* No edge seen in the cycle: per channel the timer value at its first edge
\* since the cycle's trigger, the number and the timer value of the last of
\* its edges in the open window, and the channels whose first edge fell in the
\* open window.
NoSeen == [first |-> NoClock, n |-> Zeros, last |-> NoClock, inWindow |-> {}]
\* tdoaSolve not called
NoCall == [called |-> FALSE, iterated |-> FALSE, ok |-> FALSE,
           xg |-> 0, yg |-> 0, x |-> 0, y |-> 0]

\* The frame of a call of tdoaSolve that has not been made: its arguments t
\* and vs, its locals, its results x and y and what it returns; p is the
\* point of the impact, where the arguments are made from one, and iters
\* the runs of the loop's body so far.
NoSolve ==
    [pc |-> "idle", t |-> Zeros, vs |-> 0, p |-> << >>, ref |-> 0,
     tref |-> 0, it |-> 0, iters |-> 0, xg |-> 0, yg |-> 0,
     dx |-> 0, dy |-> 0, brokeSingular |-> FALSE, ok |-> FALSE,
     x |-> 0, y |-> 0, rss |-> 0]

(***************************************************************************)
(* The window phase the three flags encode.                                *)
(***************************************************************************)
PhaseOf(armed, capturing, pending) ==
    CASE armed /\ ~capturing /\ ~pending -> "Idle"
      [] armed /\ ~capturing /\ pending -> "PendingOpen"
      [] ~armed /\ capturing /\ ~pending -> "Capturing"
      [] ~armed /\ ~capturing /\ ~pending -> "Deadtime"
      [] OTHER -> "Invalid"

phase == PhaseOf(g_armed, g_capturing, g_startPending)

\* The capture state setup() leaves.
\* A JSON value that is null, and one that is the number v.
Null == << >>
Num(v) == << v >>

\* The wave speeds an impact may have travelled at, in m/s.
Speeds == {500, 1000, 2000}

\* The page as loaded: let calibActive=false; let targetIdx=0; let sum_ab=0,
\* sum_bb=0, sampleCount=0; let vsEst=null; let waitingApply=false; and
\* <button id=btnNext disabled>, <button id=btnApply disabled>.  sum_ab is
\* in mm*us, sum_bb in us*us, vsEst in m/s.  sent counts the set_vs frames
\* sent, due those of them whose value the core's handler accepts and
\* acknowledges, acked the acknowledgments received, exact holds the speeds
\* v for which every pair (a, b) accumulated since the last Start or Reset
\* satisfies a = v * b.
PageInit ==
    [calibActive |-> FALSE, targetIdx |-> 0, sum_ab |-> 0, sum_bb |-> 0,
     sampleCount |-> 0, vsEst |-> Null, waitingApply |-> FALSE,
     btnApply |-> [disabled |-> TRUE], btnNext |-> [disabled |-> TRUE],
     sent |-> 0, due |-> 0, acked |-> 0, exact |-> Speeds]

\* No frame handled yet.
NoFrame == [text |-> FALSE, key |-> FALSE, colon |-> FALSE, num |-> 0]

Armed ==
    /\ clock = Epoch
    /\ g_firstTime = Zeros
    /\ g_hitMask = 0
    /\ g_armed = TRUE
    /\ g_capturing = FALSE
    /\ g_t0 = 0
    /\ g_startPending = FALSE
    /\ g_firstIndex = -1
    /\ g_edgeCount = Zeros
    /\ g_lastEdgeUs = Zeros
    /\ g_lastBroadcastMs = 0
    /\ g_lastHit = NoHit
    /\ pc = "top"
    /\ nowUs = 0
    /\ nowMs = 0
    /\ snap = NoSnap
    /\ start = 0
    /\ isr = << >>
    /\ sent = << >>
    /\ solves = 0
    /\ edges = 0
    /\ trigClock = None
    /\ latchClock = NoClock
    /\ closeClock = None
    /\ seen = NoSeen
    /\ solveRes = NoCall
    /\ acks = << >>
    /\ msgs = 0
    /\ rx = NoFrame
    /\ page = PageInit

\* g_prefs.getFloat("vs", def)
getFloat(prefs, def) == IF prefs = << >> THEN def ELSE prefs[1]

\* float vsSaved = g_prefs.getFloat("vs", V_SOUND);
\* if (vsSaved > 0.0f && vsSaved < 20000.0f) V_SOUND = vsSaved;
LoadVs(prefs) ==
    LET vsSaved == getFloat(prefs, V_SOUND_DEFAULT)
    IN  IF vsSaved > 0 /\ vsSaved < 20000 THEN vsSaved ELSE V_SOUND_DEFAULT

\* setup() with nothing stored under "vs".
Init ==
    /\ Armed
    /\ tdoa = NoSolve
    /\ g_prefs = << >>
    /\ V_SOUND = LoadVs(g_prefs)

(***************************************************************************)
(* The capture state the handler and loop() share, as one value.           *)
(***************************************************************************)
Shared ==
    [firstTime |-> g_firstTime, hitMask |-> g_hitMask, armed |-> g_armed,
     capturing |-> g_capturing, t0 |-> g_t0, startPending |-> g_startPending,
     firstIndex |-> g_firstIndex, edgeCount |-> g_edgeCount,
     lastEdgeUs |-> g_lastEdgeUs]

SetShared(S) ==
    /\ g_firstTime' = S.firstTime
    /\ g_hitMask' = S.hitMask
    /\ g_armed' = S.armed
    /\ g_capturing' = S.capturing
    /\ g_t0' = S.t0
    /\ g_startPending' = S.startPending
    /\ g_firstIndex' = S.firstIndex
    /\ g_edgeCount' = S.edgeCount
    /\ g_lastEdgeUs' = S.lastEdgeUs

sharedVars == << g_firstTime, g_hitMask, g_armed, g_capturing, g_t0,
                 g_startPending, g_firstIndex, g_edgeCount, g_lastEdgeUs >>
loopVars == << g_lastBroadcastMs, g_lastHit, pc, nowUs, nowMs, snap, start,
               sent, solves, closeClock, solveRes >>
calibVars == << V_SOUND, g_prefs, acks, msgs, rx >>

(***************************************************************************)
(* latch_time_min(i), statement by statement.                              *)
(***************************************************************************)
\* CountEdge without the increment of the counter
CountEdge_NoCount(S, i, now) == [S EXCEPT !.lastEdgeUs[i] = now]

\* CountEdge without the store of the last-edge timestamp
CountEdge_NoStamp(S, i, now) == [S EXCEPT !.edgeCount[i] = (@ + 1) % U16]

\* g_edgeCount[i]++; g_lastEdgeUs[i] = now;
CountEdge(S, i, now) ==
    [S EXCEPT !.edgeCount[i] = (@ + 1) % U16, !.lastEdgeUs[i] = now]

\* IsFirstEdge without its test of g_armed
IsFirstEdge_NoArmed(S) == ~S.capturing /\ ~S.startPending

\* if (g_armed && !g_capturing && !g_startPending)
IsFirstEdge(S) == S.armed /\ ~S.capturing /\ ~S.startPending

SetT0(S, now) == [S EXCEPT !.t0 = now]
SetFirstIndex(S, i) == [S EXCEPT !.firstIndex = i]

\* SetStartPending that opens the window itself
SetStartPending_Opens(S) ==
    [S EXCEPT !.startPending = FALSE, !.capturing = TRUE, !.armed = FALSE]

SetStartPending(S) == [S EXCEPT !.startPending = TRUE]

\* RaisePending without g_t0 = now
RaisePending_NoT0(S, i, now) == SetStartPending(SetFirstIndex(S, i))

\* g_t0 = now; g_firstIndex = i; g_startPending = true;
RaisePending(S, i, now) == SetStartPending(SetFirstIndex(SetT0(S, now), i))

\* MayLatch without its test of the channel's hit-mask bit
MayLatch_NoBitTest(S, i) == S.capturing \/ S.startPending

\* MayLatch without its test of g_startPending
MayLatch_OnlyCapturing(S, i) == S.capturing /\ ~HasBit(S.hitMask, i)

\* if (g_capturing || g_startPending) if (!(g_hitMask & (1u << i)))
MayLatch(S, i) == (S.capturing \/ S.startPending) /\ ~HasBit(S.hitMask, i)

\* g_hitMask |= (1u << i), the store of the value loaded as m
StoreMask(S, i, m) == [S EXCEPT !.hitMask = OrBit(m, i)]
\* g_firstTime[i] = now;
SetFirstTime(S, i, now) == [S EXCEPT !.firstTime[i] = now]

\* The handler run from entry to return with no other handler in between.
latch_time_min(S, i, now) ==
    LET S1 == CountEdge(S, i, now)
        S2 == IF IsFirstEdge(S1) THEN RaisePending(S1, i, now) ELSE S1
    IN  IF MayLatch(S2, i)
        THEN SetFirstTime(StoreMask(S2, i, S2.hitMask), i, now)
        ELSE S2

\* The edges of the cycle as they arrive on channel i at timer value c: the
\* first since (and with) the trigger, and those that fall in the open window.
NoteEdge(i, c) ==
    LET s1 == IF phase \in {"Idle", "PendingOpen", "Capturing"}
                  /\ seen.first[i] = None
              THEN [seen EXCEPT !.first[i] = c,
                                !.inWindow = IF phase = "Capturing"
                                             THEN @ \cup {i} ELSE @]
              ELSE seen
    IN  seen' = IF phase = "Capturing"
                THEN [s1 EXCEPT !.n[i] = @ + 1, !.last[i] = c] ELSE s1

\* An edge on channel i, d microseconds after the previous event; its handler
\* runs to completion.  It preempts loop() between any two of its steps.
EdgeISR(i, d) ==
    /\ isr = << >>
    /\ edges < MaxEdges
    /\ clock' = clock + d
    /\ edges' = edges + 1
    /\ LET S == latch_time_min(Shared, i, micros(clock'))
       IN  /\ SetShared(S)
           /\ trigClock' = IF S.startPending /\ ~g_startPending
                           THEN clock' ELSE trigClock
           /\ latchClock' = IF S.firstTime[i] # g_firstTime[i]
                                \/ S.hitMask # g_hitMask
                            THEN [latchClock EXCEPT ![i] = clock']
                            ELSE latchClock
    /\ NoteEdge(i, clock')
    /\ UNCHANGED << loopVars, isr, calibVars, page, tdoa >>

(***************************************************************************)
(* loop(): the local computations on the snapshot.                         *)
(***************************************************************************)
\* int have=0; for(...) if (tcopy[i]) have++;
Have(t) == Cardinality({i \in Chan : t[i] # 0})

\* int first=-1; unsigned long tf=~0u;
\* for(...) if(tcopy[i] && tcopy[i]<tf){ tf=tcopy[i]; first=i; }
RECURSIVE EarliestFrom(_, _, _, _)
EarliestFrom(t, i, first, tf) ==
    IF i = SENSOR_COUNT THEN first
    ELSE IF t[i] # 0 /\ t[i] < tf THEN EarliestFrom(t, i + 1, i, t[i])
    ELSE EarliestFrom(t, i + 1, first, tf)

\* ~0u, 0xFFFFFFFF: no tick falls on it, and it is kept as the value above
\* every timestamp that falls on one.
AllOnes == Wrap

Earliest(t) == EarliestFrom(t, 0, -1, AllOnes)

\* tdoaSolve: int ref = 0; unsigned long tref = ~0u; and the same loop
SolveRef(t) == EarliestFrom(t, 0, 0, AllOnes)
\* tdoaSolve: the channels with use[i] set; rows is their number
SolveUse(t) == {i \in Chan : i # SolveRef(t) /\ t[i] # 0}

\* TooFew with 4 timestamps required
TooFew_Four(t) == Have(t) < 4

\* tdoaSolve: if (have < 3) return false;
TooFew(t) == Have(t) < 3
\* tdoaSolve: if (rows < 2) return false;
FewRows(t) == Cardinality(SolveUse(t)) < 2

\* The points (xg, yg), in millimetres, at which the Gauss-Newton iteration
\* may stop with an RMS residual within the threshold: on the board, and off
\* it on either side of each axis.
Optima == { << 200, 200 >>, << 0 - 50, 450 >>, << 450, 0 - 50 >> }

\* ClampX that leaves xg as it is
ClampX_None(v) == v

\* if (xg < BOARD_MIN_X) xg = BOARD_MIN_X; else if (xg > BOARD_MAX_X) ...
ClampX(v) == IF v < BOARD_MIN_X THEN BOARD_MIN_X
             ELSE IF v > BOARD_MAX_X THEN BOARD_MAX_X ELSE v
ClampY(v) == IF v < BOARD_MIN_Y THEN BOARD_MIN_Y
             ELSE IF v > BOARD_MAX_Y THEN BOARD_MAX_Y ELSE v

\* What a call of tdoaSolve on the first-arrival times t can do: fail before
\* any iteration, or iterate and then fail (singular system, poor fit) or
\* return the clamped point; xg, yg record the point before the clamp.
tdoaSolve(t) ==
    IF TooFew(t) \/ FewRows(t)
    THEN {[called |-> TRUE, iterated |-> FALSE, ok |-> FALSE,
           xg |-> 0, yg |-> 0, x |-> 0, y |-> 0]}
    ELSE {[called |-> TRUE, iterated |-> TRUE, ok |-> FALSE,
           xg |-> 0, yg |-> 0, x |-> 0, y |-> 0]}
         \cup {[called |-> TRUE, iterated |-> TRUE, ok |-> TRUE,
                xg |-> o[1], yg |-> o[2],
                x |-> ClampX(o[1]), y |-> ClampY(o[2])] : o \in Optima}

\* if (have >= 3) { ... tdoaSolve(...) ... }
SolveCalls(t) == IF Have(t) >= 3 THEN tdoaSolve(t) ELSE {NoCall}

\* SX[first]*0.8f, SY[first]*0.8f
Scale08(v) == (v * 8) \div 10

\* (long)(ts - t0copy), or null for a zero timestamp
Long(v) == IF v >= Wrap \div 2 THEN v - Wrap ELSE v
Rel(ts, t0) == IF ts = 0 THEN Null ELSE Num(Long(Sub32(ts, t0)))

\* The HitResult r of a snapshot, res being what the solver did.
HitOf(sn, res) ==
    LET have == Have(sn.t)
        first == Earliest(sn.t)
    IN  IF have >= 3 /\ res.ok
        THEN [valid |-> TRUE, x |-> res.x, y |-> res.y, mode |-> "tdoa",
              haveTimes |-> have]
        ELSE IF first >= 0
        THEN [valid |-> TRUE, x |-> Scale08(SX[first]),
              y |-> Scale08(SY[first]),
              mode |-> IF have >= 2 THEN "partial" ELSE "nearest",
              haveTimes |-> have]
        ELSE [valid |-> FALSE, x |-> 0, y |-> 0, mode |-> "none",
              haveTimes |-> have]

\* What the model keeps of a HitResult in g_lastHit: x and y are read by the
\* periodic broadcast alone.
Kept(r) == [valid |-> r.valid, mode |-> r.mode, haveTimes |-> r.haveTimes]

\* CaptureMsg reading the volatile data where it reads the copies
CaptureMsg_Live(sn, r) ==
    [mode |-> r.mode, x |-> IF r.valid THEN r.x ELSE 0,
     y |-> IF r.valid THEN r.y ELSE 0,
     n |-> r.haveTimes, mask |-> g_hitMask, t0 |-> g_t0,
     t |-> [i \in Chan |-> Rel(g_firstTime[i], g_t0)],
     last |-> [i \in Chan |-> Rel(g_lastEdgeUs[i], g_t0)],
     cnt |-> g_edgeCount]

\* The one-shot JSON of a capture (its vs field left out).
CaptureMsg(sn, r) ==
    [mode |-> r.mode, x |-> IF r.valid THEN r.x ELSE 0,
     y |-> IF r.valid THEN r.y ELSE 0,
     n |-> r.haveTimes, mask |-> sn.mask, t0 |-> sn.t0,
     t |-> [i \in Chan |-> Rel(sn.t[i], sn.t0)],
     last |-> [i \in Chan |-> Rel(sn.last[i], sn.t0)],
     cnt |-> sn.cnt]

(***************************************************************************)
(* loop(), step by step.  A step is a stretch of loop() in which an edge   *)
(* interrupt changes nothing the stretch reads or writes: a critical       *)
(* section with the test that guards it, or a computation on locals.       *)
(***************************************************************************)
\* The time a pass takes before it samples its clocks.  Past the horizon the
\* model no longer advances the timer while no capture cycle is in progress.
PassTimes ==
    IF trigClock = None /\ clock >= Epoch + Horizon THEN {0} ELSE PassDeltas

\* server.handleClient(); ws.loop(); nowUs = micros(); nowMs = millis();
LoopTop(d) ==
    /\ pc = "top"
    /\ isr = << >>
    /\ clock' = clock + d
    /\ nowUs' = micros(clock')
    /\ nowMs' = millis(clock')
    /\ pc' = "chkPending"
    /\ UNCHANGED << sharedVars, g_lastBroadcastMs, g_lastHit, snap, start, isr,
                    sent, solves, edges, trigClock, latchClock, closeClock,
                    seen, solveRes, calibVars, page, tdoa >>

\* OpenSection without g_armed = false
OpenSection_KeepArmed(S) ==
    LET fi == S.firstIndex
        S1 == [S EXCEPT !.capturing = TRUE,
                        !.edgeCount = Zeros, !.lastEdgeUs = Zeros]
        S2 == IF fi >= 0 /\ ~HasBit(S1.hitMask, fi)
              THEN [S1 EXCEPT !.hitMask = OrBit(@, fi), !.firstTime[fi] = S1.t0]
              ELSE S1
    IN  [S2 EXCEPT !.startPending = FALSE]

\* OpenSection without g_startPending = false
OpenSection_KeepPending(S) ==
    [S EXCEPT !.capturing = TRUE, !.armed = FALSE,
              !.edgeCount = Zeros, !.lastEdgeUs = Zeros]

\* The critical section that opens the window.
OpenSection(S) ==
    LET fi == S.firstIndex
        S1 == [S EXCEPT !.capturing = TRUE, !.armed = FALSE,
                        !.edgeCount = Zeros, !.lastEdgeUs = Zeros]
        S2 == IF fi >= 0 /\ ~HasBit(S1.hitMask, fi)
              THEN [S1 EXCEPT !.hitMask = OrBit(@, fi), !.firstTime[fi] = S1.t0]
              ELSE S1
    IN  [S2 EXCEPT !.startPending = FALSE]

\* if (g_startPending) { ... }
OpenWindow ==
    /\ pc = "chkPending"
    /\ isr = << >>
    /\ pc' = "chkCapture"
    /\ IF g_startPending
       THEN /\ SetShared(OpenSection(Shared))
            /\ latchClock' =
                 IF g_firstIndex >= 0 /\ ~HasBit(g_hitMask, g_firstIndex)
                 THEN [latchClock EXCEPT ![g_firstIndex] = trigClock]
                 ELSE latchClock
       ELSE UNCHANGED << sharedVars, latchClock >>
    /\ UNCHANGED << clock, g_lastBroadcastMs, g_lastHit, nowUs, nowMs, snap,
                    start, isr, sent, solves, edges, trigClock, closeClock,
                    seen, solveRes, calibVars, page, tdoa >>

\* if (g_capturing && (nowUs - g_t0) >= CAPTURE_WINDOW_US)
WindowOver(S, now) == S.capturing /\ Sub32(now, S.t0) >= WindowTicks

\* The critical section that copies the volatile data.
Snapshot(S) ==
    [t |-> S.firstTime, mask |-> S.hitMask, t0 |-> S.t0,
     last |-> S.lastEdgeUs, cnt |-> S.edgeCount]

\* CloseSection without g_capturing = false
CloseSection_KeepCapturing(S) == S

\* g_capturing = false;
CloseSection(S) == [S EXCEPT !.capturing = FALSE]

CloseWindow ==
    /\ pc = "chkCapture"
    /\ isr = << >>
    /\ IF WindowOver(Shared, nowUs)
       THEN /\ snap' = Snapshot(Shared)
            /\ SetShared(CloseSection(Shared))
            /\ closeClock' = clock
            /\ pc' = "process"
       ELSE /\ pc' = "heartbeat"
            /\ UNCHANGED << snap, sharedVars, closeClock >>
    /\ UNCHANGED << clock, g_lastBroadcastMs, g_lastHit, nowUs, nowMs, start,
                    isr, sent, solves, edges, trigClock, latchClock, seen,
                    solveRes, calibVars, page, tdoa >>

\* Serial debug, the solve or the fallback, ws.broadcastTXT(j), g_lastHit,
\* start = nowMs.
Process ==
    /\ pc = "process"
    /\ isr = << >>
    /\ \E res \in SolveCalls(snap.t) :
         LET r == HitOf(snap, res)
         IN  /\ solveRes' = res
             /\ sent' = Append(sent, CaptureMsg(snap, r))
             /\ g_lastHit' = IF r.valid THEN Kept(r)
                             ELSE [g_lastHit EXCEPT !.valid = FALSE]
    /\ solves' = IF Have(snap.t) >= 3 THEN solves + 1 ELSE solves
    /\ start' = nowMs
    /\ pc' = "wait"
    /\ UNCHANGED << clock, sharedVars, g_lastBroadcastMs, nowUs, nowMs, snap,
                    isr, edges, trigClock, latchClock, closeClock, seen,
                    calibVars, page, tdoa >>

\* while (millis()-start < DEADTIME_MS)
DeadtimeOver(c, st) == SubMs(millis(c), st) >= DEADTIME_MS

\* The iterations of the wait the model takes in one step: all that are left
\* when each takes its millisecond, or half of DEADTIME_MS of them.
WaitRuns(c, st) ==
    LET left == DEADTIME_MS - SubMs(millis(c), st)
    IN  {left} \cup {n \in {DEADTIME_MS \div 2} : n < left}

\* { server.handleClient(); ws.loop(); delay(1); }, n times
WaitIter(n) ==
    /\ pc = "wait"
    /\ isr = << >>
    /\ ~DeadtimeOver(clock, start)
    /\ clock' = clock + n * DelayTicks
    /\ UNCHANGED << sharedVars, loopVars, isr, edges, trigClock, latchClock,
                    seen, calibVars, page, tdoa >>

\* ReArmSection without the zeroing of g_firstTime
ReArmSection_KeepTimes(S) ==
    [S EXCEPT !.armed = TRUE, !.hitMask = 0, !.firstIndex = -1,
              !.edgeCount = Zeros, !.lastEdgeUs = Zeros]

\* ReArmSection without g_armed = true
ReArmSection_NoArm(S) ==
    [S EXCEPT !.hitMask = 0, !.firstIndex = -1,
              !.firstTime = Zeros, !.edgeCount = Zeros, !.lastEdgeUs = Zeros]

\* The critical section that re-arms.
ReArmSection(S) ==
    [S EXCEPT !.armed = TRUE, !.hitMask = 0, !.firstIndex = -1,
              !.firstTime = Zeros, !.edgeCount = Zeros, !.lastEdgeUs = Zeros]

ReArm ==
    /\ pc = "wait"
    /\ isr = << >>
    /\ DeadtimeOver(clock, start)
    /\ SetShared(ReArmSection(Shared))
    /\ pc' = "heartbeat"
    /\ snap' = NoSnap
    /\ sent' = << >>
    /\ solves' = 0
    /\ trigClock' = None
    /\ latchClock' = NoClock
    /\ closeClock' = None
    /\ seen' = NoSeen
    /\ solveRes' = NoCall
    /\ UNCHANGED << clock, g_lastBroadcastMs, g_lastHit, nowUs, nowMs, start,
                    isr, edges, calibVars, page, tdoa >>

\* if (nowMs - g_lastBroadcastMs >= BROADCAST_INTERVAL_MS) { ... }
Heartbeat ==
    /\ pc = "heartbeat"
    /\ isr = << >>
    /\ g_lastBroadcastMs' =
         IF SubMs(nowMs, g_lastBroadcastMs) >= BROADCAST_INTERVAL_MS
         THEN nowMs ELSE g_lastBroadcastMs
    /\ pc' = "top"
    /\ UNCHANGED << clock, sharedVars, g_lastHit, nowUs, nowMs, snap, start,
                    isr, sent, solves, edges, trigClock, latchClock,
                    closeClock, seen, solveRes, calibVars, page, tdoa >>

\* One access of loop() to the shared capture state: the variable, whether
\* it is read or written, and whether interrupts are disabled at that point.
Acc(v, k, off) == [var |-> v, kind |-> k, masked |-> off]

Reads(vs, off) == { Acc(v, "read", off) : v \in vs }

Writes(vs, off) == { Acc(v, "write", off) : v \in vs }

\* OpenAccess with the edge counters cleared before noInterrupts()
OpenAccess_BareClear(S) ==
    Reads({"g_startPending"}, FALSE)
    \cup (IF S.startPending
          THEN Writes({"g_edgeCount", "g_lastEdgeUs"}, FALSE)
               \cup Writes({"g_capturing", "g_armed", "g_startPending"}, TRUE)
          ELSE {})

\* The accesses of the window-opening step on the shared state S: the test
\* of g_startPending, the critical section, the serial log line.
OpenAccess(S) ==
    Reads({"g_startPending"}, FALSE)
    \cup (IF S.startPending
          THEN Writes({"g_capturing", "g_armed", "g_edgeCount",
                       "g_lastEdgeUs", "g_startPending"}, TRUE)
               \cup Reads({"g_firstIndex"}, TRUE)
               \cup (IF S.firstIndex >= 0
                     THEN Reads({"g_hitMask"}, TRUE) ELSE {})
               \cup (IF S.firstIndex >= 0 /\ ~HasBit(S.hitMask, S.firstIndex)
                     THEN Writes({"g_hitMask", "g_firstTime"}, TRUE)
                          \cup Reads({"g_t0"}, TRUE)
                     ELSE {})
               \cup Reads({"g_t0", "g_firstIndex"}, FALSE)
          ELSE {})

\* The accesses of the window-closing step: the test of g_capturing and of
\* nowUs - g_t0, the critical section of the snapshot.
CloseAccess(S, now) ==
    Reads({"g_capturing"}, FALSE)
    \cup (IF S.capturing THEN Reads({"g_t0"}, FALSE) ELSE {})
    \cup (IF WindowOver(S, now)
          THEN Reads({"g_hitMask", "g_t0", "g_firstTime", "g_lastEdgeUs",
                      "g_edgeCount"}, TRUE)
               \cup Writes({"g_capturing"}, TRUE)
          ELSE {})

\* The accesses of the re-arm.
ReArmAccess ==
    Writes({"g_armed", "g_hitMask", "g_firstIndex", "g_firstTime",
            "g_edgeCount", "g_lastEdgeUs"}, TRUE)

\* The accesses to the shared capture state that the step loop() stands at
\* performs.
LoopAccess ==
    IF isr # << >> THEN {}
    ELSE IF pc = "chkPending" THEN OpenAccess(Shared)
    ELSE IF pc = "chkCapture" THEN CloseAccess(Shared, nowUs)
    ELSE IF pc = "wait" /\ DeadtimeOver(clock, start) THEN ReArmAccess
    ELSE {}

MainStep ==
    \/ \E d \in PassTimes : LoopTop(d)
    \/ OpenWindow
    \/ CloseWindow
    \/ Process
    \/ \E n \in WaitRuns(clock, start) : WaitIter(n)
    \/ ReArm
    \/ Heartbeat

Edge == \E i \in Chan : \E d \in EdgeDeltas : EdgeISR(i, d)

Next == MainStep \/ Edge

Spec == Init /\ [][Next]_vars

\* loop() is called again and again, and each of its steps ends.
LiveSpec == Init /\ [][Next]_vars /\ WF_vars(MainStep)

(***************************************************************************)
(* The wave-speed parameter: setup()'s load of the stored value and the    *)
(* WebSocket event handler, which ws.loop() calls once for every frame     *)
(* received.  Neither reads or writes the capture state.                   *)
(***************************************************************************)
\* The values, in m/s, the store or a frame may hold.
VsValues == {0 - 1, 0, 1, 499, 500, 501, 3000, 19999, 20000, 20001}

\* A frame as the handler sees it: whether it is a text frame, whether it
\* holds "set_vs", whether a colon follows, and what toFloat() makes of the
\* characters after the colon (0 when they are no number).
Payloads == [text : BOOLEAN, key : BOOLEAN, colon : BOOLEAN, num : VsValues]

\* type == WStype_TEXT && payload && length > 0, k >= 0, colon > 0: the
\* frame reaches the range test
IsSetVs(m) == m.text /\ m.key /\ m.colon

AcceptVs_NoLower(v) == v < 20000

AcceptVs_NoUpper(v) == v > 500

\* if (vsNew > 500.0f && vsNew < 20000.0f)
AcceptVs(v) == v > 500 /\ v < 20000

captureVars == << clock, sharedVars, loopVars, isr, edges, trigClock,
                  latchClock, seen >>

\* ws.onEvent's handler on the frame m
WsEvent(m) ==
    /\ msgs < MaxMsgs
    /\ msgs' = msgs + 1
    /\ rx' = m
    /\ IF IsSetVs(m) /\ AcceptVs(m.num)
       THEN /\ V_SOUND' = m.num
            /\ g_prefs' = << V_SOUND' >>
            /\ acks' = Append(acks, [ack |-> "set_vs", vs |-> V_SOUND'])
       ELSE UNCHANGED << V_SOUND, g_prefs, acks >>
    /\ UNCHANGED << captureVars, page, tdoa >>

\* setup() with any value, or none, stored under "vs".
CalibInit ==
    /\ Armed
    /\ tdoa = NoSolve
    /\ g_prefs \in {<< >>} \cup {<< v >> : v \in VsValues}
    /\ V_SOUND = LoadVs(g_prefs)

CalibNext == \E m \in Payloads : WsEvent(m)

\* The wave-speed parameter from startup on, frame after frame.
CalibSpec == CalibInit /\ [][CalibNext]_vars

\* ws.loop(), at the top of a pass and in the dead-time wait, runs the
\* handler on the frame that has arrived.
LoopFrame ==
    /\ pc \in {"top", "wait"}
    /\ isr = << >>
    /\ msgs = 0
    /\ \E m \in Payloads : WsEvent(m)

(***************************************************************************)
(* The page's script (the JavaScript of the HTML that setup() serves): the  *)
(* calibration session, driven by the operator's clicks and by the         *)
(* messages of the WebSocket.  Lengths are in millimetres, the times of a  *)
(* message in ticks as the model's core sends them.                        *)
(***************************************************************************)
\* const pts=[[0.200, 0.100], [0.200, 0.300], [0.300, 0.200], [0.100, 0.200]]
pts == (0 :> << 200, 100 >> @@ 1 :> << 200, 300 >> @@
        2 :> << 300, 200 >> @@ 3 :> << 100, 200 >>)

\* const targets=[Center, Top, Bottom, Left, Right]
targets == (0 :> [name |-> "Center", x |-> 200, y |-> 200] @@
            1 :> [name |-> "Top", x |-> 200, y |-> 100] @@
            2 :> [name |-> "Bottom", x |-> 200, y |-> 300] @@
            3 :> [name |-> "Left", x |-> 100, y |-> 200] @@
            4 :> [name |-> "Right", x |-> 300, y |-> 200])

\* targets.length
TargetsLength == Cardinality(DOMAIN targets)

\* Math.hypot(dx, dy), to the millimetre below.  The script's || 1e-9 turns
\* a distance of 0 into a millionth of a millimetre, which is 0 here.
Hypot(dx, dy) ==
    LET n == dx * dx + dy * dy
    IN  CHOOSE r \in 0..600 : r * r <= n /\ (r + 1) * (r + 1) > n

\* A time of a message, in microseconds.
Us(v) == 4 * v

\* Quot with Math.max(sum_bb, 1e-6)
Quot_BigFloor(ab, bb) ==
    LET d == IF bb > 1000000 THEN bb ELSE 1000000
        n == 1000 * ab
    IN  IF n >= 0 THEN (n + d - 1) \div d ELSE 0 - ((0 - n + d - 1) \div d)

\* sum_ab / Math.max(sum_bb, 1e-12) in m/s, to the next whole m/s away from
\* zero: the quotient is 0 exactly when sum_ab is 0.  1e-12 s*s is 1 us*us.
Quot(ab, bb) ==
    LET d == IF bb > 1 THEN bb ELSE 1
        n == 1000 * ab
    IN  IF n >= 0 THEN (n + d - 1) \div d ELSE 0 - ((0 - n + d - 1) \div d)

\* vsEst && isFinite(vsEst)
Usable(v) == v # Null /\ v[1] # 0

\* let ref = t.findIndex(v=>v===0); if (ref < 0) { the index of the least
\* non-null entry, the lowest on ties, or -1 }
CalibRef(t) ==
    LET zeros == {i \in Chan : t[i] = Num(0)}
        some == {i \in Chan : t[i] # Null}
    IN  IF zeros # {} THEN CHOOSE i \in zeros : \A j \in zeros : i <= j
        ELSE IF some # {}
        THEN CHOOSE i \in some :
                 \A j \in some : \/ t[i][1] < t[j][1]
                                  \/ (t[i][1] = t[j][1] /\ i <= j)
        ELSE 0 - 1

\* Math.hypot(tx - pts[i][0], ty - pts[i][1]) for target k and channel i
TargetDist ==
    [k \in DOMAIN targets |->
        [i \in Chan |-> Hypot(targets[k].x - pts[i][1],
                              targets[k].y - pts[i][2])]]

\* const a = (Di - Dr) for channel i, reference ref and target k
PairA(k, i, ref) == TargetDist[k][i] - TargetDist[k][ref]

\* const b = (t[i]) * 1e-6, in microseconds
PairB(t, i, ref) == Us(t[i][1])

\* The channels whose pair the loop accumulates.
UsedChans(t, ref) == {i \in Chan : i # ref /\ t[i] # Null}

RECURSIVE SumOver(_, _, _)
\* The sum of f over the channels 0..i-1 that are in U.
SumOver(f, U, i) ==
    IF i = 0 THEN 0
    ELSE SumOver(f, U, i - 1) + (IF (i - 1) \in U THEN f[i - 1] ELSE 0)

\* The calibration accumulation on the times t of a per-capture message,
\* the session being active.
Accumulate(p, t) ==
    LET ref == CalibRef(t)
        U == IF ref >= 0 THEN UsedChans(t, ref) ELSE {}
        a == [i \in Chan |-> IF i \in U THEN PairA(p.targetIdx, i, ref) ELSE 0]
        b == [i \in Chan |-> IF i \in U THEN PairB(t, i, ref) ELSE 0]
        ab == p.sum_ab + SumOver([i \in Chan |-> a[i] * b[i]], U, SENSOR_COUNT)
        bb == p.sum_bb + SumOver([i \in Chan |-> b[i] * b[i]], U, SENSOR_COUNT)
        est == Num(Quot(ab, bb))
    IN  IF U = {} THEN p
        ELSE [p EXCEPT !.sum_ab = ab, !.sum_bb = bb,
                       !.sampleCount = p.sampleCount + 1,
                       !.vsEst = est,
                       !.btnApply.disabled =
                           ~(Usable(est) /\ p.sampleCount + 1 >= 5),
                       !.btnNext.disabled = (p.targetIdx >= TargetsLength - 1),
                       !.exact = {v \in p.exact : \A i \in U :
                                    1000 * a[i] = v * b[i]}]

\* if (d.ack === 'set_vs') { waitingApply=false; btnApply.disabled=false; }
\* Every message of the core carries a numeric vs.
OnAck(p, d) ==
    IF "ack" \in DOMAIN d /\ d.ack = "set_vs"
    THEN [p EXCEPT !.waitingApply = FALSE, !.btnApply.disabled = FALSE]
    ELSE p

\* OnCapture without its test of calibActive
OnCapture_Always(p, d) ==
    IF "t" \in DOMAIN d /\ p.targetIdx \in DOMAIN targets
    THEN Accumulate(p, d.t)
    ELSE p

\* if (Array.isArray(d.t) && ...) { if (calibActive && targets[targetIdx]) }
OnCapture(p, d) ==
    IF "t" \in DOMAIN d /\ p.calibActive /\ p.targetIdx \in DOMAIN targets
    THEN Accumulate(p, d.t)
    ELSE p

\* ws.onmessage on the message d
OnMessage(p, d) == OnCapture(OnAck(p, d), d)

\* The snapshot with first arrivals ts, window start t0 and one edge on
\* each channel of L.
SnapOf(t0, ts, L) ==
    [t |-> ts, mask |-> SumOver([i \in Chan |-> Pow2(i)], L, SENSOR_COUNT),
     t0 |-> t0, last |-> ts,
     cnt |-> [i \in Chan |-> IF i \in L THEN 1 ELSE 0]]

\* Snapshots of impacts: at the Top target heard by S0 and then by S1, at
\* 1000 m/s; heard by all four channels in the same microsecond; heard by
\* S0 at micros() = 0 and then by S1 and S2; heard by S0 alone.
PageSnaps ==
    { SnapOf(1000, (0 :> 1000 @@ 1 :> 1050 @@ 2 :> 0 @@ 3 :> 0), {0, 1}),
      SnapOf(1000, (0 :> 1000 @@ 1 :> 1000 @@ 2 :> 1000 @@ 3 :> 1000), Chan),
      SnapOf(0, (0 :> 0 @@ 1 :> 25 @@ 2 :> 75 @@ 3 :> 0), {0, 1, 2}),
      SnapOf(1000, (0 :> 1000 @@ 1 :> 0 @@ 2 :> 0 @@ 3 :> 0), {0}) }

\* The per-capture messages of these snapshots.
PageCaptures ==
    UNION { { CaptureMsg(sn, HitOf(sn, res)) : res \in SolveCalls(sn.t) } :
            sn \in PageSnaps }

\* The periodic broadcast while no hit is valid (its vs field left out).
BeatMsg == [beat |-> TRUE]

pageRest == << captureVars, calibVars, tdoa >>
solveRest == << captureVars, calibVars, page >>

\* A per-capture message or a heartbeat arrives.
PageMessage ==
    /\ page.sampleCount < MaxSamples
    /\ \E d \in PageCaptures \cup {BeatMsg} : page' = OnMessage(page, d)
    /\ UNCHANGED pageRest

\* The core's acknowledgment of a set_vs frame of the page arrives.
PageAck ==
    /\ page.acked < page.due
    /\ \E v \in {w \in VsValues : AcceptVs(w)} :
          page' = [OnMessage(page, [ack |-> "set_vs", vs |-> v])
                     EXCEPT !.acked = page.acked + 1]
    /\ UNCHANGED pageRest

\* btnStart.onclick
Start ==
    /\ page' = [page EXCEPT !.calibActive = TRUE, !.targetIdx = 0,
                            !.sum_ab = 0, !.sum_bb = 0, !.sampleCount = 0,
                            !.vsEst = Null, !.exact = Speeds,
                            !.btnApply.disabled = TRUE,
                            !.btnNext.disabled = (TargetsLength <= 1)]
    /\ UNCHANGED pageRest

\* btnNext.onclick; a disabled button gets no click
NextTarget ==
    /\ ~page.btnNext.disabled
    /\ LET k == IF page.targetIdx < TargetsLength - 1
                THEN page.targetIdx + 1 ELSE page.targetIdx
       IN  page' = [page EXCEPT !.targetIdx = k,
                                !.btnNext.disabled = (k >= TargetsLength - 1)]
    /\ UNCHANGED pageRest

\* btnReset.onclick
Reset ==
    /\ page' = [page EXCEPT !.sum_ab = 0, !.sum_bb = 0, !.sampleCount = 0,
                            !.vsEst = Null, !.exact = Speeds,
                            !.btnApply.disabled = TRUE]
    /\ UNCHANGED pageRest

\* btnApply.onclick; a disabled button gets no click
Apply ==
    /\ ~page.btnApply.disabled
    /\ page.sent < MaxMsgs
    /\ IF Usable(page.vsEst)
       THEN page' = [page EXCEPT !.waitingApply = TRUE,
                                 !.btnApply.disabled = TRUE,
                                 !.sent = page.sent + 1,
                                 !.due = IF AcceptVs(page.vsEst[1])
                                         THEN page.due + 1 ELSE page.due]
       ELSE page' = page
    /\ UNCHANGED pageRest

PageNext ==
    \/ Start
    \/ NextTarget
    \/ Reset
    \/ Apply
    \/ PageMessage
    \/ PageAck

\* The page from its load on.
PageSpec == Init /\ [][PageNext]_vars

\* An impact of one edge.
FirstEdge == edges = 0 /\ Edge

WholeNext == MainStep \/ FirstEdge \/ LoopFrame

\* One capture cycle, with a frame arriving at any point of it.
WholeSpec == Init /\ [][WholeNext]_vars

(***************************************************************************)
(* tdoaSolve, statement by statement.  Where the code keeps a double the   *)
(* model keeps a rounded integer: lengths in hundredths of a millimetre,   *)
(* the entries of the Jacobian in thousandths, those of J^T J in           *)
(* millionths.                                                             *)
(***************************************************************************)
\* Hundredths of a millimetre in a millimetre
Fine == 100
\* The entries of the Jacobian are kept in thousandths
Milli == 1000
\* const int maxIter = 15;
maxIter == 15
\* const double damping = 1e-6, in millionths
damping == 1
\* const double maxStep = 0.05, in hundredths of a millimetre
maxStep == 5000
\* The step below which the iteration stops: 1e-4
StepTol == 10
\* SOLVER_RMS_THRESH_M = 0.02f
SOLVER_RMS_THRESH_M == 2000

Abs(v) == IF v < 0 THEN 0 - v ELSE v
Max2(a, b) == IF a >= b THEN a ELSE b
Min2(a, b) == IF a <= b THEN a ELSE b
\* a / b for b > 0, rounded to the nearest
RDiv[a \in Int, b \in Int] == IF a >= 0 THEN (2 * a + b) \div (2 * b)
              ELSE 0 - ((2 * (0 - a) + b) \div (2 * b))
Pow10(e) == 10 ^ e

\* sqrt(n), rounded down
SqrtFrom[n \in Nat, r \in Nat] ==
    LET r1 == (r + n \div r) \div 2
    IN  IF r1 >= r THEN r ELSE SqrtFrom[n, r1]
Sqrt(n) == IF n = 0 THEN 0 ELSE SqrtFrom[n, 46340]

\* sqrt(dx*dx + dy*dy); components too long to be squared are shortened
Norm2[dx \in Int, dy \in Int] ==
    LET f == Max2(Abs(dx), Abs(dy)) \div 30000 + 1
        ex == RDiv[dx, f]
        ey == RDiv[dy, f]
    IN  f * Sqrt(ex * ex + ey * ey)

\* The sensor positions sx[i], sy[i]
Sx(i) == Fine * SX[i]
Sy(i) == Fine * SY[i]
\* sqrt(dxi*dxi + dyi*dyi) at the point (x, y)
DistTo(i, x, y) == Norm2[x - Sx(i), y - Sy(i)]

\* d / D with D floored at eps: an entry of a unit vector, in thousandths
Unit(d, D) == IF D = 0 THEN 0 ELSE RDiv[d * Milli, D]

\* x * y for x, y >= 0, in three digits to the base 10000
Limb == 10000
Prod(x, y) ==
    LET xh == x \div Limb
        xl == x % Limb
        yh == y \div Limb
        yl == y % Limb
        l0 == xl * yl
        m0 == xh * yl + xl * yh + l0 \div Limb
    IN  << xh * yh + m0 \div Limb, m0 % Limb, l0 % Limb >>
WideLess(p, q) ==
    \/ p[1] < q[1]
    \/ p[1] = q[1] /\ p[2] < q[2]
    \/ p[1] = q[1] /\ p[2] = q[2] /\ p[3] < q[3]
\* p - q for p >= q
WideSub(p, q) ==
    LET l == p[3] - q[3]
        bl == IF l < 0 THEN 1 ELSE 0
        m == p[2] - q[2] - bl
        bm == IF m < 0 THEN 1 ELSE 0
    IN  << p[1] - q[1] - bm, m + Limb * bm, l + Limb * bl >>
\* The leading digits of w and the power of ten they are to be multiplied by
Mantissa(w) ==
    IF w[1] >= Limb THEN [m |-> w[1], e |-> 8]
    ELSE IF w[1] > 0 THEN [m |-> w[1] * Limb + w[2], e |-> 4]
    ELSE [m |-> w[2] * Limb + w[3], e |-> 0]

\* The power of ten that brings v down to four digits
RECURSIVE ScaleOf(_)
ScaleOf(v) == IF v > 10000 THEN 1 + ScaleOf(v \div 10) ELSE 0

\* n * 10^e / c for n >= 0, c > 0, digit by digit; quotients beyond Huge are
\* cut off at Huge
Huge == 1000000
LongDiv[q \in Nat, r \in Nat, e \in Nat, c \in Nat] ==
    IF e = 0 \/ q >= Huge THEN Min2(q, Huge)
    ELSE LongDiv[q * 10 + (r * 10) \div c, (r * 10) % c, e - 1, c]
MulDiv[n \in Int, e \in Int, c \in Int] ==
    LET a == Abs(n)
        q == IF e < 0 THEN (a \div c) \div Pow10(0 - e)
             ELSE LongDiv[a \div c, a % c, e, c]
    IN  IF n < 0 THEN 0 - q ELSE q

\* dd[i] = double(vs) * dt_us * 1e-6, of dt ticks
SolveDd(vs, dt) == RDiv[2 * vs * dt, 5]

\* The initial guess taken at the board's origin
InitialGuess_Origin(s) == 0

\* xg, yg: the mean of the sensor positions s
InitialGuess(s) ==
    (s[0] + s[1] + s[2] + s[3]) \div SENSOR_COUNT

\* tref once the reference has been chosen: ~0u where no channel was
SolveTref(t) ==
    LET r == EarliestFrom(t, 0, -1, AllOnes)
    IN  IF r < 0 THEN AllOnes ELSE t[r]

\* The residual with dd[i] left out
Residual_NoDd(s, i) ==
    DistTo(i, s.xg, s.yg) - DistTo(s.ref, s.xg, s.yg)

\* ri = (Di - Dr) - dd[i] of a used channel i at (xg, yg)
Residual(s, i) ==
    (DistTo(i, s.xg, s.yg) - DistTo(s.ref, s.xg, s.yg))
    - SolveDd(s.vs, s.t[i] - s.tref)

\* One pass of the loop over the channels at (xg, yg): the Jacobian row
\* (ux - urx, uy - ury), in thousandths, and the residual ri of channel i.
Row(s, i) ==
    LET Dr == DistTo(s.ref, s.xg, s.yg)
        Di == DistTo(i, s.xg, s.yg)
    IN  [fx |-> Unit(s.xg - Sx(i), Di) - Unit(s.xg - Sx(s.ref), Dr),
         fy |-> Unit(s.yg - Sy(i), Di) - Unit(s.yg - Sy(s.ref), Dr),
         ri |-> Residual(s, i)]
\* The rows of the used channels; a channel with use[i] clear adds none
Rows(s) ==
    [i \in Chan |-> IF i \in SolveUse(s.t) THEN Row(s, i)
                    ELSE [fx |-> 0, fy |-> 0, ri |-> 0]]

\* The normal equations of the rows J of the channels U: ATA00, ATA01, ATA11
\* with the damping added, ATb0, ATb1.
NormalEq(J, U) ==
    [a00 |-> SumOver([i \in Chan |-> J[i].fx * J[i].fx], U, SENSOR_COUNT)
               + damping,
     a01 |-> SumOver([i \in Chan |-> J[i].fx * J[i].fy], U, SENSOR_COUNT),
     a11 |-> SumOver([i \in Chan |-> J[i].fy * J[i].fy], U, SENSOR_COUNT)
               + damping,
     b0 |-> SumOver([i \in Chan |-> J[i].fx * J[i].ri], U, SENSOR_COUNT),
     b1 |-> SumOver([i \in Chan |-> J[i].fy * J[i].ri], U, SENSOR_COUNT)]

\* if (fabs(det) < 1e-12): det, in millionths squared, is below 1
Singular(n) == ~WideLess(Prod(Abs(n.a01), Abs(n.a01)), Prod(n.a00, n.a11))

\* dx, dy: -(inv00*ATb0 + inv01*ATb1), -(inv01*ATb0 + inv11*ATb1), and the
\* limit of maxStep on their length.
StepOf(n) ==
    LET det == Mantissa(WideSub(Prod(n.a00, n.a11),
                                Prod(Abs(n.a01), Abs(n.a01))))
        sa == ScaleOf(Max2(Max2(n.a00, n.a11), Abs(n.a01)))
        sb == ScaleOf(Max2(Abs(n.b0), Abs(n.b1)))
        a00 == RDiv[n.a00, Pow10(sa)]
        a01 == RDiv[n.a01, Pow10(sa)]
        a11 == RDiv[n.a11, Pow10(sa)]
        c0 == RDiv[n.b0, Pow10(sb)]
        c1 == RDiv[n.b1, Pow10(sb)]
        nx == 0 - (a11 * c0 - a01 * c1)
        ny == 0 - (a00 * c1 - a01 * c0)
        e == 3 + sa + sb - det.e
        f == Max2(Abs(nx), Abs(ny)) \div 30000 + 1
        mx == RDiv[nx, f]
        my == RDiv[ny, f]
        hn == Norm2[mx, my]
        stepNorm == MulDiv[hn, e, det.m] * f
    IN  IF stepNorm > maxStep
        THEN [dx |-> RDiv[mx * maxStep, hn], dy |-> RDiv[my * maxStep, hn]]
        ELSE [dx |-> MulDiv[nx, e, det.m], dy |-> MulDiv[ny, e, det.m]]

\* if (sqrt(dx*dx + dy*dy) < 1e-4) break;
ShortStep(dx, dy) == Norm2[dx, dy] < StepTol

\* The loop with one iteration more
LoopRuns_Sixteen(it) == it < maxIter + 1

\* for (...; it < maxIter; ...)
LoopRuns(it) == it < maxIter

\* The entry of tdoaSolve up to the loop.
SolveEntry ==
    /\ tdoa.pc = "entry"
    /\ tdoa' = IF TooFew(tdoa.t) \/ FewRows(tdoa.t)
               THEN [tdoa EXCEPT !.pc = "done", !.ok = FALSE,
                                 !.ref = IF TooFew(tdoa.t) THEN 0
                                         ELSE SolveRef(tdoa.t),
                                 !.tref = IF TooFew(tdoa.t) THEN 0
                                          ELSE SolveTref(tdoa.t)]
               ELSE [tdoa EXCEPT !.pc = "loop", !.ref = SolveRef(tdoa.t),
                                 !.tref = SolveTref(tdoa.t),
                                 !.it = 0,
                                 !.xg = InitialGuess([i \in Chan |-> Sx(i)]),
                                 !.yg = InitialGuess([i \in Chan |-> Sy(i)])]
    /\ UNCHANGED solveRest

\* One test of the loop's condition and, where it holds, one run of its body.
SolveIter ==
    /\ tdoa.pc = "loop"
    /\ IF ~LoopRuns(tdoa.it)
       THEN tdoa' = [tdoa EXCEPT !.pc = "exit"]
       ELSE \E J \in {Rows(tdoa)} :
            \E n \in {NormalEq(J, SolveUse(tdoa.t))} :
              IF Singular(n)
              THEN tdoa' = [tdoa EXCEPT !.brokeSingular = TRUE,
                                        !.pc = "exit"]
              ELSE \E d \in {StepOf(n)} :
                     tdoa' = [tdoa EXCEPT
                                !.xg = @ + d.dx, !.yg = @ + d.dy,
                                !.dx = d.dx, !.dy = d.dy,
                                !.iters = @ + 1,
                                !.it = IF ShortStep(d.dx, d.dy)
                                       THEN @ ELSE @ + 1,
                                !.pc = IF ShortStep(d.dx, d.dy)
                                       THEN "exit" ELSE "loop"]
    /\ UNCHANGED solveRest

\* rss, each residual cut off above twice the threshold
Rss(s) ==
    LET U == SolveUse(s.t)
        cut == 2 * SOLVER_RMS_THRESH_M
        ri == [i \in Chan |->
                 IF i \in U
                 THEN Max2(0 - cut, Min2(cut, Residual(s, i))) ELSE 0]
    IN  SumOver([i \in Chan |-> ri[i] * ri[i]], SolveUse(s.t), SENSOR_COUNT)

\* if (rms > SOLVER_RMS_THRESH_M), rms being sqrt(rss / m)
PoorFit(s) ==
    LET m == Cardinality(SolveUse(s.t))
    IN  m >= 2 /\ Rss(s) > SOLVER_RMS_THRESH_M * SOLVER_RMS_THRESH_M * m

\* The clamp to the board bounds
ClampFine(v, lo, hi) == IF v < Fine * lo THEN Fine * lo
                        ELSE IF v > Fine * hi THEN Fine * hi ELSE v

\* From the end of the loop to the return.
SolveReturn ==
    /\ tdoa.pc = "exit"
    /\ tdoa' = IF tdoa.brokeSingular
               THEN [tdoa EXCEPT !.pc = "done", !.ok = FALSE]
               ELSE IF PoorFit(tdoa)
               THEN [tdoa EXCEPT !.pc = "done", !.ok = FALSE,
                                 !.rss = Rss(tdoa)]
               ELSE [tdoa EXCEPT
                       !.pc = "done", !.ok = TRUE, !.rss = Rss(tdoa),
                       !.x = ClampFine(tdoa.xg, BOARD_MIN_X, BOARD_MAX_X),
                       !.y = ClampFine(tdoa.yg, BOARD_MIN_Y, BOARD_MAX_Y)]
    /\ UNCHANGED solveRest

SolveNext == SolveEntry \/ SolveIter \/ SolveReturn

\* The board's centre, and the point at q hundredths of a millimetre from it
\* along each coordinate of the direction u.
Centre == << Fine * 200, Fine * 200 >>
PointAt(u, q) == << Centre[1] + q * u[1], Centre[2] + q * u[2] >>
\* The directions from the centre to the sensors and between them, and four
\* directions off the layout's axes of symmetry.
Rays == { << 1, 0 >>, << 0 - 1, 0 >>, << 0, 1 >>, << 0, 0 - 1 >>,
          << 1, 1 >>, << 1, 0 - 1 >>, << 0 - 1, 1 >>, << 0 - 1, 0 - 1 >>,
          << 2, 1 >>, << 0 - 1, 2 >>, << 0 - 2, 0 - 1 >>, << 1, 0 - 2 >> }

\* The distance from p to the sensor nearest to it, and how much farther the
\* farthest sensor is.
Nearest(p) ==
    CHOOSE d \in {DistTo(i, p[1], p[2]) : i \in Chan} :
        \A i \in Chan : d <= DistTo(i, p[1], p[2])
Spread(p) ==
    (CHOOSE d \in {DistTo(i, p[1], p[2]) : i \in Chan} :
        \A i \in Chan : d >= DistTo(i, p[1], p[2])) - Nearest(p)

\* The least q in lo+1 .. hi at which the spread along u reaches d
RECURSIVE Bisect(_, _, _, _)
Bisect(u, d, lo, hi) ==
    IF hi - lo <= 1 THEN hi
    ELSE LET mid == (lo + hi) \div 2
         IN  IF Spread(PointAt(u, mid)) >= d THEN Bisect(u, d, lo, mid)
             ELSE Bisect(u, d, mid, hi)

\* The point along u at which the last sensor hears the impact k ticks
\* after the first, at the wave speed vs.
ImpactAt(u, k, vs) ==
    IF k = 0 THEN Centre
    ELSE PointAt(u, Bisect(u, SolveDd(vs, k), 0,
                           (Fine * 100 - 1) \div Max2(Abs(u[1]), Abs(u[2]))))

\* The first arrivals of an impact at p, on ticks: the nearest sensor hears
\* it at tick 1000.
ArrivalsOf(p, vs) ==
    [i \in Chan |->
       1000 + RDiv[DistTo(i, p[1], p[2]) - Nearest(p), SolveDd(vs, 1)]]

\* The wave speeds of the modelled calls, in m/s.
SolveSpeeds == {750, 1250, 3000}

\* The calls made from impacts: arrivals that fall on ticks, to within a
\* tick, along the rays.
RayInputs ==
    { [t |-> ArrivalsOf(ImpactAt(u, k, vs), vs), vs |-> vs,
       p |-> ImpactAt(u, k, vs)] :
      u \in Rays, k \in 0 .. MaxLag, vs \in SolveSpeeds }

\* Calls with too few arrivals, with one channel silent, with arrivals of
\* no impact, and with arrivals at 0xFFFFFFFF.
OddInputs ==
    { [t |-> ts, vs |-> V_SOUND_DEFAULT, p |-> << >>] :
      ts \in { (0 :> 1000 @@ 1 :> 0 @@ 2 :> 0 @@ 3 :> 0),
               (0 :> 1000 @@ 1 :> 1002 @@ 2 :> 0 @@ 3 :> 0),
               (0 :> 1000 @@ 1 :> 1004 @@ 2 :> 1000 @@ 3 :> 0),
               (0 :> 1000 @@ 1 :> 1040 @@ 2 :> 1000 @@ 3 :> 1040),
               (0 :> 1013 @@ 1 :> 1000 @@ 2 :> 1010 @@ 3 :> 1000),
               (0 :> AllOnes @@ 1 :> 0 @@ 2 :> 0 @@ 3 :> 0),
               (0 :> 0 @@ 1 :> 0 @@ 2 :> AllOnes @@ 3 :> 0),
               (0 :> 0 @@ 1 :> AllOnes @@ 2 :> AllOnes @@ 3 :> AllOnes) } }

\* The calls made from impacts on a grid about the centre, at a wave speed
\* slow enough that a tick is a tenth of a millimetre of travel.
GridInputs ==
    { [t |-> ArrivalsOf(PointAt(<< a, b >>, GridStep), GridSpeed),
       vs |-> GridSpeed, p |-> PointAt(<< a, b >>, GridStep)] :
      a \in (0 - GridSpan) .. GridSpan, b \in (0 - GridSpan) .. GridSpan }

SolveInputs == RayInputs \cup GridInputs \cup OddInputs

\* The system as started, in a call of tdoaSolve on its snapshot.
SolveInit ==
    /\ Armed
    /\ \E in \in SolveInputs :
         /\ g_prefs = << in.vs >>
         /\ tdoa = [NoSolve EXCEPT !.pc = "entry", !.t = in.t,
                                   !.vs = LoadVs(g_prefs), !.p = in.p]
    /\ V_SOUND = LoadVs(g_prefs)

\* Calls of tdoaSolve, from entry to return.
SolveSpec == SolveInit /\ [][SolveNext]_vars

\* A call that has started goes on.
SolveLive == SolveSpec /\ WF_vars(SolveNext)

(***************************************************************************)
(* The handlers at statement granularity: an edge of another channel may   *)
(* preempt a handler between any two of its accesses to the shared state.  *)
(* isr is the stack of the handlers entered and not yet returned; loop()   *)
(* runs only when it is empty.                                             *)
(***************************************************************************)
Top == isr[Len(isr)]
Active == {isr[k].ch : k \in 1 .. Len(isr)}
Goto(l) == isr' = [isr EXCEPT ![Len(isr)].at = l]
Return == isr' = SubSeq(isr, 1, Len(isr) - 1)
ghostVars == << edges, trigClock, latchClock, seen, calibVars, page, tdoa >>

\* unsigned long now = micros();
Enter(i, d) ==
    /\ edges < MaxEdges
    /\ i \notin Active
    /\ clock' = clock + d
    /\ edges' = edges + 1
    /\ isr' = Append(isr, [ch |-> i, clk |-> clock', at |-> "count", m |-> 0])
    /\ NoteEdge(i, clock')
    /\ UNCHANGED << sharedVars, loopVars, trigClock, latchClock, calibVars, page, tdoa >>

HCount ==
    /\ isr # << >> /\ Top.at = "count"
    /\ SetShared(CountEdge(Shared, Top.ch, micros(Top.clk)))
    /\ Goto("test")
    /\ UNCHANGED << clock, loopVars, ghostVars >>

HTest ==
    /\ isr # << >> /\ Top.at = "test"
    /\ Goto(IF IsFirstEdge(Shared) THEN "setT0" ELSE "chkLatch")
    /\ UNCHANGED << clock, sharedVars, loopVars, ghostVars >>

HSetT0 ==
    /\ isr # << >> /\ Top.at = "setT0"
    /\ SetShared(SetT0(Shared, micros(Top.clk)))
    /\ Goto("setIdx")
    /\ UNCHANGED << clock, loopVars, ghostVars >>

HSetIdx ==
    /\ isr # << >> /\ Top.at = "setIdx"
    /\ SetShared(SetFirstIndex(Shared, Top.ch))
    /\ Goto("setPend")
    /\ UNCHANGED << clock, loopVars, ghostVars >>

HSetPend ==
    /\ isr # << >> /\ Top.at = "setPend"
    /\ SetShared(SetStartPending(Shared))
    /\ trigClock' = Top.clk
    /\ Goto("chkLatch")
    /\ UNCHANGED << clock, loopVars, edges, latchClock, seen, calibVars, page, tdoa >>

HChkLatch ==
    /\ isr # << >> /\ Top.at = "chkLatch"
    /\ IF MayLatch(Shared, Top.ch) THEN Goto("load") ELSE Return
    /\ UNCHANGED << clock, sharedVars, loopVars, ghostVars >>

\* g_hitMask |= (1u << i): the load
HLoad ==
    /\ isr # << >> /\ Top.at = "load"
    /\ isr' = [isr EXCEPT ![Len(isr)].at = "store", ![Len(isr)].m = g_hitMask]
    /\ UNCHANGED << clock, sharedVars, loopVars, ghostVars >>

\* g_hitMask |= (1u << i): the store
HStore ==
    /\ isr # << >> /\ Top.at = "store"
    /\ SetShared(StoreMask(Shared, Top.ch, Top.m))
    /\ Goto("setTime")
    /\ UNCHANGED << clock, loopVars, ghostVars >>

HSetTime ==
    /\ isr # << >> /\ Top.at = "setTime"
    /\ SetShared(SetFirstTime(Shared, Top.ch, micros(Top.clk)))
    /\ latchClock' = [latchClock EXCEPT ![Top.ch] = Top.clk]
    /\ Return
    /\ UNCHANGED << clock, loopVars, edges, trigClock, seen, calibVars, page, tdoa >>

HandlerStep ==
    \/ HCount
    \/ HTest
    \/ HSetT0
    \/ HSetIdx
    \/ HSetPend
    \/ HChkLatch
    \/ HLoad
    \/ HStore
    \/ HSetTime

NestedEdge == \E i \in Chan : \E d \in EdgeDeltas : Enter(i, d)

NextReentrant == MainStep \/ NestedEdge \/ HandlerStep

\* The program with handlers that preempt one another.
SpecReentrant == Init /\ [][NextReentrant]_vars

(***************************************************************************)
(* The claims.                                                             *)
(***************************************************************************)
PhaseOrder ==
    { << "Idle", "PendingOpen" >>, << "PendingOpen", "Capturing" >>,
      << "Capturing", "Deadtime" >>, << "Deadtime", "Idle" >> }

\* A cycle has gone through its dead time before the present one: the model
\* follows the idle system only up to the horizon.
SecondCycle == clock >= Epoch + Horizon + DEADTIME_MS * DelayTicks

\* C1: every step of an edge handler or of loop() either keeps the window
\* phase or moves it along Idle -> PendingOpen -> Capturing -> Deadtime ->
\* Idle; no other phase transition occurs.
C1_PhaseOrder == [][phase' = phase \/ << phase, phase' >> \in PhaseOrder]_vars

\* C1's case: a second cycle's request, after a first cycle went all the way
\* round.
C1_Witness == phase = "PendingOpen" /\ SecondCycle

\* C2: a snapshot is taken only when at least CAPTURE_WINDOW_US have really
\* elapsed on the timer since the triggering edge.
C2_WindowRunsFull ==
    closeClock # None => closeClock - trigClock >= WindowTicks

\* C3: an edge on a channel whose hit-mask bit is set changes nothing but that
\* channel's edge counter and last-edge timestamp.
C3_LatchedOnce ==
    [][\A i \in Chan :
         (HasBit(g_hitMask, i) /\ \E d \in EdgeDeltas : EdgeISR(i, d))
         => /\ g_firstTime' = g_firstTime
            /\ g_hitMask' = g_hitMask
            /\ << g_armed, g_capturing, g_startPending, g_t0, g_firstIndex >>'
                 = << g_armed, g_capturing, g_startPending, g_t0, g_firstIndex >>
            /\ \A j \in Chan \ {i} :
                 /\ g_edgeCount'[j] = g_edgeCount[j]
                 /\ g_lastEdgeUs'[j] = g_lastEdgeUs[j]]_vars

\* C3's case: a latched channel has seen a later edge in the open window.
C3_Witness ==
    \E i \in Chan :
      /\ phase = "Capturing"
      /\ HasBit(g_hitMask, i)
      /\ g_edgeCount[i] >= 1
      /\ g_lastEdgeUs[i] # g_firstTime[i]

\* C4: when handlers preempt one another, a channel that has latched in the
\* current cycle keeps its hit-mask bit once the handlers have returned, and
\* its first-arrival is not written again before the re-arm.
C4_ReentrantSafe ==
    [][/\ isr' = << >> =>
            \A i \in Chan : latchClock'[i] # None => HasBit(g_hitMask', i)
       /\ \A i \in Chan :
            (latchClock[i] # None /\ latchClock'[i] # None)
            => g_firstTime'[i] = g_firstTime[i]]_vars

\* C5: with no handler in execution, and in the snapshot, bit i of the hit
\* mask is set if and only if channel i's first-arrival is nonzero.
C5_MaskIffTime ==
    isr = << >> =>
      /\ \A i \in Chan : HasBit(g_hitMask, i) <=> g_firstTime[i] # 0
      /\ \A i \in Chan : HasBit(snap.mask, i) <=> snap.t[i] # 0

\* C6: an edge that arrives in the Deadtime phase adds one to its channel's
\* edge counter, raises no PendingOpen request, latches nothing, opens no
\* window and neither calls the solver nor publishes a per-capture message.
C6_DeadtimeQuiet ==
    [][\A i \in Chan :
         (phase = "Deadtime" /\ \E d \in EdgeDeltas : EdgeISR(i, d))
         => /\ g_edgeCount'[i] = g_edgeCount[i] + 1
            /\ phase' = "Deadtime"
            /\ g_firstTime' = g_firstTime
            /\ g_hitMask' = g_hitMask
            /\ << g_t0, g_firstIndex >>' = << g_t0, g_firstIndex >>
            /\ sent' = sent
            /\ solves' = solves
            /\ snap' = snap]_vars

\* C6's case: an edge has arrived since the snapshot, during the dead time.
C6_Witness ==
    /\ pc = "wait"
    /\ phase = "Deadtime"
    /\ \E i \in Chan : g_edgeCount[i] > snap.cnt[i]

\* C7: when loop() keeps being called, every PendingOpen request is drained,
\* the window it opens is closed and its per-capture message published, and
\* the system returns to Idle, whatever the solver returns: a request leads
\* to Idle, and on the way there PendingOpen is left only for Capturing,
\* Capturing only for Deadtime, and Deadtime only for Idle with the cycle's
\* message published.
C7_CycleCompletes ==
    /\ [][/\ (phase = "PendingOpen" /\ phase' # phase) => phase' = "Capturing"
          /\ (phase = "Capturing" /\ phase' # phase) => phase' = "Deadtime"
          /\ (phase = "Deadtime" /\ phase' # phase)
             => (phase' = "Idle" /\ Len(sent) = 1)]_vars
    /\ (phase = "PendingOpen") ~> (phase = "Idle")

\* C7's case: the system is idle again after a cycle in which three channels
\* latched and the solver failed.
C7_Witness ==
    /\ phase = "Idle"
    /\ g_lastHit.valid
    /\ g_lastHit.haveTimes >= 3
    /\ g_lastHit.mode = "partial"

\* C8: in a cycle the solver is called at most once and at most one
\* per-capture message is broadcast; a message is broadcast only in the
\* Deadtime phase after the snapshot, with none broadcast before it in the
\* cycle; and the re-arm finds exactly one message broadcast.
C8_OneEstimate ==
    [][/\ Len(sent') <= 1
       /\ solves' <= 1
       /\ (phase = "Deadtime" /\ phase' = "Idle") => Len(sent) = 1
       /\ (sent' # sent /\ sent' # << >>)
          => (phase = "Deadtime" /\ closeClock # None /\ sent = << >>)
       /\ solves' > solves
          => (phase = "Deadtime" /\ closeClock # None /\ sent = << >>)]_vars

\* C8's case: the message of a cycle in which the solver was called is out.
C8_Witness == pc = "wait" /\ Len(sent) = 1 /\ solves = 1

\* C9: in the Idle phase the hit mask and every first-arrival are zero; every
\* nonzero first-arrival, in the shared state and in the snapshot, is the
\* timestamp of an edge of the current cycle at or after its triggering edge;
\* and so is the earliest arrival of the snapshot.
C9_NoStaleTime ==
    /\ phase = "Idle" => (g_hitMask = 0 /\ g_firstTime = Zeros)
    /\ \A i \in Chan :
         g_firstTime[i] # 0
         => /\ trigClock # None
            /\ latchClock[i] # None
            /\ latchClock[i] >= trigClock
            /\ g_firstTime[i] = micros(latchClock[i])
    /\ \A i \in Chan :
         snap.t[i] # 0
         => /\ latchClock[i] # None
            /\ latchClock[i] >= trigClock
            /\ snap.t[i] = micros(latchClock[i])
    /\ Earliest(snap.t) >= 0 => latchClock[Earliest(snap.t)] # None

\* C9's case: the snapshot of a later cycle, with fewer channels latched than
\* in the cycle before it.
C9_Witness ==
    /\ pc = "process"
    /\ SecondCycle
    /\ Have(snap.t) = 1
    /\ g_lastHit.haveTimes = 2

\* C10: the re-arm happens only when the millisecond clock has advanced by at
\* least DEADTIME_MS since the snapshot that closed the window.
C10_DeadtimeFromClose ==
    [][(phase = "Deadtime" /\ phase' = "Idle")
       => SubMs(millis(clock'), millis(closeClock)) >= DEADTIME_MS]_vars

\* An edge on channel i has been handled in this step.
EdgeOn(i) == \E d \in EdgeDeltas : EdgeISR(i, d)

\* The per-capture message broadcast in this step, if one is.
Published == sent' # sent /\ sent' # << >>
LastSent == sent'[Len(sent')]

\* C11: every edge on channel i, in whatever phase it arrives, adds one to
\* channel i's edge counter and sets its last-edge timestamp to the edge's
\* time, and changes no other channel's counter or last-edge timestamp.
C11_EdgeCounted ==
    [][\A i \in Chan :
         EdgeOn(i)
         => /\ g_edgeCount'[i] = g_edgeCount[i] + 1
            /\ g_lastEdgeUs'[i] = micros(clock')
            /\ \A j \in Chan \ {i} :
                 /\ g_edgeCount'[j] = g_edgeCount[j]
                 /\ g_lastEdgeUs'[j] = g_lastEdgeUs[j]]_vars

\* C11's case: a channel counted one edge in the open window and one more in
\* the dead time.
C11_Witness ==
    /\ phase = "Deadtime"
    /\ \E i \in Chan :
         /\ snap.cnt[i] = 1
         /\ g_edgeCount[i] = 2
         /\ g_lastEdgeUs[i] # snap.last[i]

\* C12: an edge on channel i at time ts in the Idle phase raises PendingOpen
\* with trigger index i and t0 = ts; an edge in any other phase leaves t0 and
\* the trigger index as they are.
C12_TriggerWhenIdle ==
    [][\A i \in Chan :
         EdgeOn(i)
         => IF phase = "Idle"
            THEN /\ phase' = "PendingOpen"
                 /\ g_firstIndex' = i
                 /\ g_t0' = micros(clock')
            ELSE /\ g_t0' = g_t0
                 /\ g_firstIndex' = g_firstIndex]_vars

\* C12's case: channel 3 triggered, and an edge of another channel followed
\* while the request was pending.
C12_Witness ==
    /\ phase = "PendingOpen"
    /\ g_firstIndex = 3
    /\ g_t0 = micros(trigClock)
    /\ \E j \in Chan \ {3} : g_edgeCount[j] = 1

\* C13: in the snapshot, a channel with an edge since (and with) the
\* triggering edge has as first-arrival the timestamp of the earliest such
\* edge, the triggering channel's being the triggering edge; a channel with
\* no such edge has first-arrival 0.
C13_FirstArrivals ==
    closeClock # None
    => /\ g_firstIndex \in Chan
       /\ seen.first[g_firstIndex] = trigClock
       /\ \A i \in Chan :
            snap.t[i] = IF seen.first[i] = None THEN 0
                        ELSE micros(seen.first[i])

\* C13's case: a channel other than the trigger had two edges before the
\* snapshot, and one channel had none.
C13_Witness ==
    /\ closeClock # None
    /\ \E i \in Chan \ {g_firstIndex} :
         /\ snap.t[i] # 0
         /\ snap.last[i] # snap.t[i]
    /\ \E j \in Chan : snap.t[j] = 0 /\ seen.first[j] = None

\* C14: no execution of the edge handler changes g_capturing or g_armed or
\* clears g_startPending; a step that does is a step of loop().
C14_HandlerKeepsPhase ==
    [][/\ (\E i \in Chan : EdgeOn(i))
          => /\ g_capturing' = g_capturing
             /\ g_armed' = g_armed
             /\ g_startPending => g_startPending'
       /\ (g_capturing' # g_capturing \/ g_armed' # g_armed
             \/ (g_startPending /\ ~g_startPending'))
          => (edges' = edges /\ pc' # pc)]_vars

\* C14's case: the window is open and has seen two edges of one channel.
C14_Witness ==
    /\ phase = "Capturing"
    /\ \E i \in Chan : seen.n[i] = 2

\* C15: the per-capture message of every closed window carries, for every
\* channel, the number of its edges between the drain of the request and the
\* snapshot and the time relative to t0 of the latest of them (null when
\* there is none), whatever the solver did.
C15_Diagnostics ==
    [][Published
       => \A i \in Chan :
            /\ LastSent.cnt[i] = seen.n[i]
            /\ LastSent.last[i] =
                 IF seen.n[i] = 0 THEN Null
                 ELSE Num(Long(Sub32(micros(seen.last[i]),
                                     micros(trigClock))))]_vars

\* C16: the Gauss-Newton iteration is entered if and only if the snapshot has
\* at least 3 nonzero first-arrivals; with fewer the solver fails before any
\* iteration or is not called.
C16_IterationGate ==
    /\ pc = "wait" => (solveRes.iterated <=> Have(snap.t) >= 3)
    /\ pc # "wait" => ~solveRes.iterated
    /\ solveRes.ok => solveRes.iterated

\* C16's case: exactly 3 first-arrivals, and the iteration ran and failed.
C16_Witness ==
    /\ pc = "wait"
    /\ Have(snap.t) = 3
    /\ solveRes.iterated
    /\ ~solveRes.ok

\* The channels latched in a snapshot
Latched(sn) == Cardinality({i \in Chan : HasBit(sn.mask, i)})

\* C17: the published method tag is "tdoa" if and only if at least 3
\* channels latched and tdoaSolve succeeded; otherwise it is "partial" with
\* at least 2 channels latched, "nearest" with exactly 1 and "none" with
\* none.
C17_MethodTag ==
    [][Published
       => LET n == Latched(snap)
          IN  /\ LastSent.mode = "tdoa" <=> (n >= 3 /\ solveRes'.ok)
              /\ LastSent.mode # "tdoa"
                 => LastSent.mode = IF n >= 2 THEN "partial"
                                    ELSE IF n = 1 THEN "nearest"
                                    ELSE "none"]_vars

\* v lies in the closed interval spanned by a and b
Between(v, a, b) == (a <= v /\ v <= b) \/ (b <= v /\ v <= a)

\* C18: each coordinate of a fallback estimate lies in the closed interval
\* spanned by the earliest-firing sensor's coordinate and the board centre's.
C18_FallbackBetween ==
    \A k \in 1 .. Len(sent) :
      sent[k].mode \in {"partial", "nearest"}
      => LET f == Earliest(snap.t)
         IN  /\ Between(sent[k].x, SX[f], BOARD_SIZE_M \div 2)
             /\ Between(sent[k].y, SY[f], BOARD_SIZE_M \div 2)

\* p is the point of lo .. hi nearest to v
Dist(a, b) == IF a >= b THEN a - b ELSE b - a
IsNearest(p, v, lo, hi) ==
    /\ p \in lo .. hi
    /\ \A q \in lo .. hi : Dist(p, v) <= Dist(q, v)

\* C19: a position tdoaSolve returns lies on the board, and is the point of
\* the board nearest, coordinate by coordinate, to the point the iteration
\* stopped at; it is published with the full-solve tag.
C19_SolveOnBoard ==
    solveRes.ok
    => /\ Len(sent) = 1
       /\ sent[1].mode = "tdoa"
       /\ IsNearest(sent[1].x, solveRes.xg, BOARD_MIN_X, BOARD_MAX_X)
       /\ IsNearest(sent[1].y, solveRes.yg, BOARD_MIN_Y, BOARD_MAX_Y)

\* C19's case: the iteration stopped off the board, left of it and below it.
C19_Witness ==
    /\ solveRes.ok
    /\ solveRes.xg < BOARD_MIN_X
    /\ solveRes.yg > BOARD_MAX_Y
    /\ Len(sent) = 1

\* C20: from the end of setup() on, V_SOUND lies in [500, 20000] m/s.
C20_VsInRange == V_SOUND >= 500 /\ V_SOUND <= 20000

\* The acknowledgment of the override to v
AckOf(v) == [ack |-> "set_vs", vs |-> v]

\* C21: every set_vs frame whose value v satisfies 500 <= v <= 20000 (the
\* bounds included) sets V_SOUND to v, stores v under "vs" and sends the
\* acknowledgment carrying v.
C21_OverrideApplied ==
    [][\A m \in Payloads :
          (WsEvent(m) /\ IsSetVs(m) /\ m.num >= 500 /\ m.num <= 20000)
          => /\ V_SOUND' = m.num
             /\ g_prefs' = << m.num >>
             /\ acks' = Append(acks, AckOf(m.num))]_vars

\* C22: a set_vs frame whose value is outside [500, 20000], a value that is
\* no number and reads as 0 included, leaves V_SOUND and the stored value
\* as they were and sends no acknowledgment.
C22_InvalidIgnored ==
    [][\A m \in Payloads :
          (WsEvent(m) /\ IsSetVs(m) /\ (m.num < 500 \/ m.num > 20000))
          => UNCHANGED << V_SOUND, g_prefs, acks >>]_vars

\* The third or a later frame was a set_vs whose value is no number; no
\* frame so far was acknowledged and the value loaded at startup is in force.
C22_Witness ==
    /\ msgs >= 3
    /\ IsSetVs(rx)
    /\ rx.num = 0
    /\ acks = << >>
    /\ V_SOUND = 3000
    /\ g_prefs = << 3000 >>

\* C23: after startup only the handling of a set_vs frame with a value in
\* [500, 20000] changes V_SOUND or the stored value: no edge interrupt and
\* no step of loop() (drain, open, close, solve, fallback, publish,
\* dead-time wait, re-arm, heartbeat) does.
C23_OnlyOverride ==
    [][(V_SOUND' # V_SOUND \/ g_prefs' # g_prefs)
       => \E m \in Payloads :
             /\ WsEvent(m)
             /\ IsSetVs(m)
             /\ m.num >= 500
             /\ m.num <= 20000
             /\ V_SOUND' = m.num]_vars

\* A frame changed V_SOUND, and a capture cycle ran up to its re-arm and
\* ended with the new value in force.
C23_Witness ==
    /\ V_SOUND = 19999
    /\ msgs = 1
    /\ edges = 1
    /\ pc = "heartbeat"
    /\ g_armed

\* The Apply button is enabled and the estimate is one a click sends.
Eligible == ~page.btnApply.disabled /\ Usable(page.vsEst)

\* C24: whatever the operator clicks and whatever messages arrive, the
\* session is commit-eligible only while its sample count is at least 5, and
\* a click on Apply with fewer than 5 samples sends no set_vs frame.
C24_CommitNeedsFive ==
    /\ [](Eligible => page.sampleCount >= 5)
    /\ [][(Apply /\ page.sampleCount < 5) => page'.sent = page.sent]_vars

\* C25: for every per-capture message with at least one latched channel,
\* the reference channel the page's estimator picks from the message is the
\* channel the solver picks from the snapshot: the lowest-index channel
\* with the smallest raw first arrival.
C25_SameReference ==
    \A k \in 1..Len(sent) :
        sent[k].mask # 0 => CalibRef(sent[k].t) = Earliest(snap.t)

\* What the claim C26 takes for channel i's time: relative to the
\* reference's, in microseconds.
TimeFromRef(t, i, ref) == Us(t[i][1] - t[ref][1])

\* C26: a per-capture message handled while the session is active adds, for
\* every firing channel i other than the reference, a_i * b_i to sum_ab and
\* b_i * b_i to sum_bb, with a_i the target's distance to sensor i less its
\* distance to the reference sensor and b_i the channel's time less the
\* reference's; it adds one to the sample count if there is such a channel
\* and leaves the count as it is if there is none.
C26_Accumulation ==
    [][\A d \in PageCaptures :
          (PageMessage /\ page.calibActive /\ page' = OnMessage(page, d))
          => LET ref == CalibRef(d.t)
                 U == IF ref >= 0
                      THEN {i \in Chan : i # ref /\ d.t[i] # Null} ELSE {}
                 a == [i \in Chan |->
                          IF i \in U THEN PairA(page.targetIdx, i, ref) ELSE 0]
                 b == [i \in Chan |->
                          IF i \in U THEN TimeFromRef(d.t, i, ref) ELSE 0]
             IN  /\ page'.sum_ab = page.sum_ab
                       + SumOver([i \in Chan |-> a[i] * b[i]], U, SENSOR_COUNT)
                 /\ page'.sum_bb = page.sum_bb
                       + SumOver([i \in Chan |-> b[i] * b[i]], U, SENSOR_COUNT)
                 /\ page'.sampleCount =
                       page.sampleCount + (IF U # {} THEN 1 ELSE 0)]_vars

\* C27: if every pair (a, b) accumulated in the session satisfies
\* a = v * b for one speed v, and some b is not zero, the estimate is v
\* after every sample.
C27_ExactEstimate ==
    \A v \in page.exact :
        (page.sampleCount > 0 /\ page.sum_bb > 0) => page.vsEst = Num(v)

\* Three samples at two targets, one of them with all times equal, all of
\* them exact for 1000 m/s: the estimate is 1000.
C27_Witness ==
    /\ page.sampleCount >= 3
    /\ page.targetIdx = 1
    /\ page.exact = {1000}
    /\ page.sum_bb > 40000
    /\ page.vsEst = Num(1000)

C30_SnapshotOnly ==
    [][/\ (closeClock # None /\ \E i \in Chan : EdgeOn(i))
          => (snap' = snap /\ sent' = sent /\ solveRes' = solveRes)
       /\ Published
          => LET m == LastSent
                 r == HitOf(snap, solveRes')
             IN  /\ snap' = snap
                 /\ m.mode = r.mode
                 /\ r.valid => (m.x = r.x /\ m.y = r.y)
                 /\ m.n = Have(snap.t)
                 /\ m.mask = snap.mask
                 /\ m.t0 = snap.t0
                 /\ m.cnt = snap.cnt
                 /\ \A i \in Chan :
                       /\ m.t[i] = Rel(snap.t[i], snap.t0)
                       /\ m.last[i] = Rel(snap.last[i], snap.t0)]_vars

\* A message is out whose counter for some channel is the snapshot's, while
\* an edge after the snapshot has raised that channel's live counter and
\* last-edge timestamp.
C30_Witness ==
    /\ pc = "wait"
    /\ Len(sent) = 1
    /\ \E i \in Chan :
          /\ sent[1].cnt[i] = snap.cnt[i]
          /\ g_edgeCount[i] > snap.cnt[i]
          /\ g_lastEdgeUs[i] # snap.last[i]

\* C28: in every phase a heartbeat is emitted when BROADCAST_INTERVAL_MS has
\* elapsed since the previous one.  A pass of loop() broadcasts heartbeats
\* only at its end, so within a pass the previous heartbeat is at least as
\* old as the pass's sample nowMs of millis(): once the first heartbeat is
\* out, no pass, in whichever phase, has gone on for twice
\* BROADCAST_INTERVAL_MS without a heartbeat.
C28_HeartbeatDue ==
    (g_lastBroadcastMs # 0 /\ pc # "top")
    => SubMs(millis(clock), nowMs) < 2 * BROADCAST_INTERVAL_MS

\* The per-capture message of the cycle whose dead time is running
CycleMsg == sent[Len(sent)]

\* C36: in every snapshot the trigger channel's mask bit is set and its
\* first-arrival is t0, and every other latched channel's first-arrival was
\* taken at or after t0; in every per-capture message the trigger channel's
\* t[] is 0 and every non-null t[i] is at least 0.
C36_TriggerIsOrigin ==
    /\ pc \in {"process", "wait"}
       => /\ HasBit(snap.mask, g_firstIndex)
          /\ snap.t[g_firstIndex] = snap.t0
          /\ \A i \in Chan :
               HasBit(snap.mask, i)
               => Sub32(snap.t[i], snap.t0) < Wrap \div 2
    /\ pc = "wait"
       => /\ CycleMsg.t[g_firstIndex] = Num(0)
          /\ \A i \in Chan : CycleMsg.t[i] # Null => CycleMsg.t[i][1] >= 0

\* The combinations of (g_armed, g_capturing, g_startPending) of the four
\* phases Idle, PendingOpen, Capturing, Deadtime.
PhaseFlags ==
    { << TRUE, FALSE, FALSE >>, << TRUE, FALSE, TRUE >>,
      << FALSE, TRUE, FALSE >>, << FALSE, FALSE, FALSE >> }

\* C37: wherever an edge handler or loop() outside its critical sections can
\* look, (g_armed, g_capturing, g_startPending) is one of the four
\* combinations of Idle, PendingOpen, Capturing and Deadtime: g_capturing
\* and g_startPending are never both true, nor g_armed and g_capturing.
C37_FlagCombinations ==
    /\ << g_armed, g_capturing, g_startPending >> \in PhaseFlags
    /\ ~(g_capturing /\ g_startPending)
    /\ ~(g_armed /\ g_capturing)

\* C37's case: the dead time of a cycle, which has been through PendingOpen
\* and Capturing, with an edge arriving in it.
C37_Witness ==
    /\ phase = "Deadtime"
    /\ pc = "wait"
    /\ edges >= 2
    /\ Len(sent) = 1

\* C38: every snapshot taken at window close has at least one latched
\* channel, and every per-capture message has n >= 1, a nonzero mask, n equal
\* to the number of bits set in mask, and a mode other than "none".
C38_NeverEmpty ==
    /\ pc \in {"process", "wait"} => snap.mask # 0
    /\ \A k \in 1..Len(sent) :
         /\ sent[k].n >= 1
         /\ sent[k].mask # 0
         /\ sent[k].n = Latched(sent[k])
         /\ sent[k].mode # "none"

WrappedInWindow ==
    \E i \in Chan : HasBit(snap.mask, i) /\ snap.t[i] < snap.t0

\* C40: when the 32-bit timer wraps between the trigger and a later
\* first-arrival of the same window, the reference channel of tdoaSolve and
\* the earliest channel of the fallback are the channel that fired first,
\* and no t[i] - t[ref] that is used is negative.
C40_ReferenceAcrossWrap ==
    (pc \in {"process", "wait"} /\ WrappedInWindow)
    => /\ SolveRef(snap.t) = g_firstIndex
       /\ Earliest(snap.t) = g_firstIndex
       /\ \A i \in Chan :
            snap.t[i] # 0 => snap.t[i] - snap.t[g_firstIndex] >= 0

\* The sums and the sample count of the calibration session
Session(p) == << p.sum_ab, p.sum_bb, p.sampleCount >>

\* A per-capture message, and one in which at most the reference has a time
IsCapture(d) == "t" \in DOMAIN d
OnlyRef(d) == Cardinality({i \in Chan : d.t[i] # Null}) <= 1

\* The acknowledgments the core can send
AckMsgs == {AckOf(v) : v \in {w \in VsValues : AcceptVs(w)}}

\* C35: the sums and the sample count of the calibration session change
\* only when a per-capture message is received while the session is active,
\* or on Start or Reset; a heartbeat, an acknowledgment, a per-capture
\* message while the session is inactive and a per-capture message in which
\* only the reference channel fired leave them as they are.
C35_SessionChanges ==
    /\ [][Session(page') # Session(page)
          => \/ Start
             \/ Reset
             \/ /\ page.calibActive
                /\ \E d \in PageCaptures : page' = OnMessage(page, d)]_vars
    /\ [](\A d \in PageCaptures \cup {BeatMsg} \cup AckMsgs :
            (~IsCapture(d) \/ ~page.calibActive \/ OnlyRef(d))
            => Session(OnMessage(page, d)) = Session(page))

\* C35's case: a session with samples taken that has been stopped by no
\* action and in which the estimate is on display.
C35_Witness ==
    /\ page.calibActive
    /\ page.sampleCount = 2
    /\ page.sum_bb > 0
    /\ page.targetIdx = 1

\* p lies strictly inside the convex hull of the sensors
InHull(p) == Abs(p[1] - Centre[1]) + Abs(p[2] - Centre[2]) < Fine * 100

\* The arrivals of the call are those of an impact at its point p, heard by
\* all four sensors at the call's wave speed: each falls on its tick to
\* within a fiftieth of a millimetre of travel.
Consistent(s) ==
    /\ s.p # << >>
    /\ \A i \in Chan :
         /\ s.t[i] # 0
         /\ Abs((DistTo(i, s.p[1], s.p[2]) - Nearest(s.p))
                - SolveDd(s.vs, s.t[i] - 1000)) <= 2

\* C31: for arrivals that are consistent with an impact strictly inside the
\* convex hull of the sensors and with the wave speed, tdoaSolve succeeds
\* and returns a point within 1 mm of the impact, with an RMS residual of
\* at most a tenth of a millimetre.
C31_ExactInputsSolved ==
    (tdoa.pc = "done" /\ Consistent(tdoa) /\ InHull(tdoa.p))
    => /\ tdoa.ok
       /\ Norm2[tdoa.x - tdoa.p[1], tdoa.y - tdoa.p[2]] <= Fine
       /\ tdoa.rss <= 100 * Cardinality(SolveUse(tdoa.t))

\* C31's case: an impact inside the hull, off the lines through the centre
\* and the sensors and off the diagonals between them, found in three runs
\* of the loop's body or more.
C31_Witness ==
    /\ tdoa.pc = "done"
    /\ Consistent(tdoa)
    /\ InHull(tdoa.p)
    /\ tdoa.p[1] # Centre[1]
    /\ tdoa.p[2] # Centre[2]
    /\ Abs(tdoa.p[1] - Centre[1]) # Abs(tdoa.p[2] - Centre[2])
    /\ tdoa.iters >= 3
    /\ tdoa.ok

\* What loop() has of a finished call: whether it succeeded and the point
\* it returned, in millimetres.
ResultOf(s) ==
    [called |-> TRUE, iterated |-> s.iters > 0, ok |-> s.ok,
     xg |-> RDiv[s.xg, Fine], yg |-> RDiv[s.yg, Fine],
     x |-> RDiv[s.x, Fine], y |-> RDiv[s.y, Fine]]

\* The per-capture message of a snapshot with the call's arrivals.
MessageOf(s) ==
    LET sn == SnapOf(s.tref, s.t, {i \in Chan : s.t[i] # 0})
    IN  CaptureMsg(sn, HitOf(sn, ResultOf(s)))

\* All four channels latched at the same nonzero timestamp
AllAtOnce(t) == t[0] # 0 /\ \A i \in Chan : t[i] = t[0]

\* C32: with the wave speed 3000 m/s and all four channels latched at the
\* same nonzero timestamp, tdoaSolve succeeds in the first run of its
\* loop's body with a step of zero, and the estimate published is
\* (0.2, 0.2) with the tag "tdoa" and n = 4.
C32_EqualTimesCentre ==
    (tdoa.pc = "done" /\ tdoa.vs = V_SOUND_DEFAULT /\ AllAtOnce(tdoa.t))
    => /\ tdoa.ok
       /\ tdoa.iters = 1
       /\ tdoa.dx = 0 /\ tdoa.dy = 0
       /\ MessageOf(tdoa).mode = "tdoa"
       /\ MessageOf(tdoa).x = 200 /\ MessageOf(tdoa).y = 200
       /\ MessageOf(tdoa).n = 4

\* C32's case: the call on four equal timestamps has returned.
C32_Witness ==
    /\ tdoa.pc = "done"
    /\ tdoa.vs = V_SOUND_DEFAULT
    /\ AllAtOnce(tdoa.t)
    /\ tdoa.ok

\* The channels of t that fired, and whether i is one whose raw timestamp
\* is the smallest among them.
Fired(t) == {i \in Chan : t[i] # 0}
IsEarliest(t, i) == i \in Fired(t) /\ \A j \in Fired(t) : t[i] <= t[j]

\* C33: for every snapshot with at least one nonzero first-arrival, 32-bit
\* values up to 0xFFFFFFFF included, the earliest channel of the fallback
\* and, once tdoaSolve has chosen it, its reference channel are channels
\* that fired, with the smallest raw timestamp among those that fired.
C33_ReferenceFired ==
    Have(tdoa.t) >= 1
    => /\ IsEarliest(tdoa.t, Earliest(tdoa.t))
       /\ (tdoa.pc \in {"loop", "exit", "done"} /\ ~TooFew(tdoa.t))
          => IsEarliest(tdoa.t, tdoa.ref)

\* C34: tdoaSolve terminates on every input: the body of its loop runs at
\* most 15 times, the loop is left before the 15th run only when the
\* determinant test fails or the step applied is shorter than 1e-4 m, and
\* the call returns.
C34_SolverTerminates ==
    /\ [](tdoa.iters <= maxIter)
    /\ [][(tdoa.pc = "loop" /\ tdoa'.pc = "exit" /\ tdoa'.iters < maxIter)
          => \/ tdoa'.brokeSingular
             \/ Norm2[tdoa'.dx, tdoa'.dy] < StepTol]_vars
    /\ (tdoa.pc = "entry") ~> (tdoa.pc = "done")

\* C34's case: a call whose loop ran its 15 iterations has returned.
C34_Witness ==
    /\ tdoa.pc = "done"
    /\ tdoa.iters = maxIter
    /\ tdoa.it = maxIter

====
